---- MODULE Spec2Model ----
(***************************************************************************)
(* Model of enhanced_cordic.c: an enhanced CORDIC sin()/cos() whose first  *)
(* iterations are replaced by a block-RAM lookup table and whose residual  *)
(* angle z is doubled at every iteration.                                  *)
(*                                                                         *)
(* The program works on int64_t values of up to 36 bits.  A value v that   *)
(* may exceed 31 bits is held as a pair <<hi, lo>> with                    *)
(* v = hi * 2^20 + lo and 0 <= lo < 2^20 (hi carries the sign), so that    *)
(* every operation below is exact two's-complement int64_t arithmetic; no  *)
(* value of the program comes near the 64-bit limit.                       *)
(***************************************************************************)
EXTENDS Integers, Sequences, FiniteSets, TLC

(* ---------------- configuration (#define block, lines 66-93) ----------- *)
INDEX_BITS == 11
CORDIC_BITS == 19
INPUT_BITS == 2 + INDEX_BITS + CORDIC_BITS
CORDIC_REPS == 24
OUTPUT_SCALE_BITS == 31
OUTPUT_EXTRA_BITS == 4
Z_EXTRA_BITS == 2

RECURSIVE Pow2(_)
Pow2(n) == IF n = 0 THEN 1 ELSE 2 * Pow2(n - 1)

CORDIC_MASK == Pow2(CORDIC_BITS) - 1
TABLE_SIZE == Pow2(INDEX_BITS)
TARGET == Pow2(CORDIC_BITS + Z_EXTRA_BITS - 1)

(* ---------------- int64_t values as <<hi, lo>> pairs ------------------- *)
LIMB_BITS == 20
LIMB == Pow2(LIMB_BITS)

WNorm(hi, lo) == <<hi + (lo \div LIMB), lo % LIMB>>
WInt(n) == WNorm(0, n)
WAdd(a, b) == WNorm(a[1] + b[1], a[2] + b[2])
WSub(a, b) == WNorm(a[1] - b[1], a[2] - b[2])
WNeg(a) == WNorm(-a[1], -a[2])
WLess(a, b) == a[1] < b[1] \/ (a[1] = b[1] /\ a[2] < b[2])
WLeq(a, b) == a = b \/ WLess(a, b)
(* a >> n on int64_t: arithmetic shift, i.e. floor(a / 2^n) *)
WShr(a, n) ==
    IF n >= LIMB_BITS
    THEN WNorm(0, a[1] \div Pow2(n - LIMB_BITS))
    ELSE WNorm(a[1] \div Pow2(n),
               (a[1] % Pow2(n)) * Pow2(LIMB_BITS - n) + (a[2] \div Pow2(n)))
(* 2^n as an int64_t *)
WPow2(n) == IF n >= LIMB_BITS THEN <<Pow2(n - LIMB_BITS), 0>> ELSE <<0, Pow2(n)>>
(* the low n bits of a non-negative a (a & ((1<<n)-1)), n <= 20: a small integer *)
WLowBits(a, n) == a[2] % Pow2(n)

OUTPUT_SCALE == WPow2(OUTPUT_SCALE_BITS)
FULL_CIRCLE == WPow2(INPUT_BITS)

(* ---------------- values setup() obtains from libm --------------------- *)
(* start_shifts = ceil(log(atan(half_table_angle))/log(2.0)) for           *)
(* TABLE_SIZE = 2048, as evaluated in IEEE-754 double arithmetic.          *)
start_shifts == -11
(* trunc(FULL_CIRCLE * atan(1.0/pow(2,i-start_shifts)) / (2*PI)            *)
(*       * 2^(Z_EXTRA_BITS+i)) for i = 0 .. CORDIC_REPS-1, as evaluated in *)
(* IEEE-754 double arithmetic: the value line 119 adds 1 to.               *)
ScaledAtan ==
    <<
       1335088, 1335088, 1335088, 1335088, 1335088, 1335088, 1335088, 1335088,
       1335088, 1335088, 1335088, 1335088, 1335088, 1335088, 1335088, 1335088,
       1335088, 1335088, 1335088, 1335088, 1335088, 1335088, 1335088, 1335088
    >>
(* (int64_t)(table_magnitude * sin(table_angle * i + half_table_angle)     *)
(*           - pow(2,OUTPUT_EXTRA_BITS-1)) for i = 0 .. TABLE_SIZE-1, as   *)
(* evaluated in IEEE-754 double arithmetic (line 127), as <<hi, lo>>.      *)
SineValues ==
    <<
       <<12, 593872>>, <<37, 733048>>, <<62, 872202>>, <<87, 1011316>>,
       <<113, 101801>>, <<138, 240792>>, <<163, 379697>>, <<188, 518502>>,
       <<213, 657190>>, <<238, 795746>>, <<263, 934156>>, <<289, 23826>>,
       <<314, 161894>>, <<339, 299769>>, <<364, 437434>>, <<389, 574874>>,
       <<414, 712074>>, <<439, 849019>>, <<464, 985692>>, <<490, 73502>>,
       <<515, 209586>>, <<540, 345352>>, <<565, 480784>>, <<590, 615868>>,
       <<615, 750588>>, <<640, 884928>>, <<665, 1018872>>, <<691, 103830>>,
       <<716, 236938>>, <<741, 369603>>, <<766, 501812>>, <<791, 633547>>,
       <<816, 764794>>, <<841, 895538>>, <<866, 1025762>>, <<892, 106875>>,
       <<917, 236014>>, <<942, 364588>>, <<967, 492579>>, <<992, 619975>>,
       <<1017, 746758>>, <<1042, 872913>>, <<1067, 998425>>, <<1093, 74702>>,
       <<1118, 198880>>, <<1143, 322369>>, <<1168, 445153>>, <<1193, 567216>>,
       <<1218, 688543>>, <<1243, 809118>>, <<1268, 928926>>, <<1293, 1047951>>,
       <<1319, 117602>>, <<1344, 235016>>, <<1369, 351600>>, <<1394, 467339>>,
       <<1419, 582218>>, <<1444, 696222>>, <<1469, 809334>>, <<1494, 921540>>,
       <<1519, 1032824>>, <<1545, 94594>>, <<1570, 203987>>, <<1595, 312412>>,
       <<1620, 419852>>, <<1645, 526293>>, <<1670, 631719>>, <<1695, 736114>>,
       <<1720, 839463>>, <<1745, 941751>>, <<1770, 1042962>>, <<1796, 94504>>,
       <<1821, 193515>>, <<1846, 291402>>, <<1871, 388150>>, <<1896, 483744>>,
       <<1921, 578168>>, <<1946, 671407>>, <<1971, 763445>>, <<1996, 854267>>,
       <<2021, 943857>>, <<2046, 1032199>>, <<2072, 70703>>, <<2097, 156505>>,
       <<2122, 241014>>, <<2147, 324213>>, <<2172, 406087>>, <<2197, 486622>>,
       <<2222, 565801>>, <<2247, 643609>>, <<2272, 720031>>, <<2297, 795051>>,
       <<2322, 868653>>, <<2347, 940822>>, <<2372, 1011544>>, <<2398, 32225>>,
       <<2423, 100003>>, <<2448, 166287>>, <<2473, 231060>>, <<2498, 294308>>,
       <<2523, 356015>>, <<2548, 416165>>, <<2573, 474743>>, <<2598, 531734>>,
       <<2623, 587122>>, <<2648, 640892>>, <<2673, 693028>>, <<2698, 743514>>,
       <<2723, 792336>>, <<2748, 839478>>, <<2773, 884924>>, <<2798, 928659>>,
       <<2823, 970667>>, <<2848, 1010934>>, <<2874, 867>>, <<2899, 37603>>,
       <<2924, 72552>>, <<2949, 105696>>, <<2974, 137021>>, <<2999, 166512>>,
       <<3024, 194153>>, <<3049, 219928>>, <<3074, 243822>>, <<3099, 265820>>,
       <<3124, 285906>>, <<3149, 304065>>, <<3174, 320281>>, <<3199, 334539>>,
       <<3224, 346824>>, <<3249, 357120>>, <<3274, 365411>>, <<3299, 371683>>,
       <<3324, 375920>>, <<3349, 378105>>, <<3374, 378225>>, <<3399, 376263>>,
       <<3424, 372205>>, <<3449, 366034>>, <<3474, 357735>>, <<3499, 347293>>,
       <<3524, 334693>>, <<3549, 319919>>, <<3574, 302955>>, <<3599, 283786>>,
       <<3624, 262398>>, <<3649, 238773>>, <<3674, 212898>>, <<3699, 184756>>,
       <<3724, 154332>>, <<3749, 121611>>, <<3774, 86578>>, <<3799, 49216>>,
       <<3824, 9511>>, <<3848, 1016023>>, <<3873, 971585>>, <<3898, 924758>>,
       <<3923, 875525>>, <<3948, 823872>>, <<3973, 769783>>, <<3998, 713242>>,
       <<4023, 654236>>, <<4048, 592747>>, <<4073, 528761>>, <<4098, 462262>>,
       <<4123, 393235>>, <<4148, 321664>>, <<4173, 247535>>, <<4198, 170831>>,
       <<4223, 91538>>, <<4248, 9640>>, <<4272, 973697>>, <<4297, 886543>>,
       <<4322, 796737>>, <<4347, 704265>>, <<4372, 609111>>, <<4397, 511260>>,
       <<4422, 410696>>, <<4447, 307405>>, <<4472, 201370>>, <<4497, 92576>>,
       <<4521, 1029584>>, <<4546, 915227>>, <<4571, 798065>>, <<4596, 678083>>,
       <<4621, 555266>>, <<4646, 429598>>, <<4671, 301064>>, <<4696, 169648>>,
       <<4721, 35335>>, <<4745, 946686>>, <<4770, 806534>>, <<4795, 663439>>,
       <<4820, 517386>>, <<4845, 368359>>, <<4870, 216343>>, <<4895, 61323>>,
       <<4919, 951860>>, <<4944, 790786>>, <<4969, 626661>>, <<4994, 459471>>,
       <<5019, 289200>>, <<5044, 115834>>, <<5068, 987931>>, <<5093, 808326>>,
       <<5118, 625579>>, <<5143, 439674>>, <<5168, 250597>>, <<5193, 58331>>,
       <<5217, 911439>>, <<5242, 712751>>, <<5267, 510830>>, <<5292, 305660>>,
       <<5317, 97224>>, <<5341, 934085>>, <<5366, 719075>>, <<5391, 500755>>,
       <<5416, 279109>>, <<5441, 54121>>, <<5465, 874354>>, <<5490, 642638>>,
       <<5515, 407536>>, <<5540, 169032>>, <<5564, 975686>>, <<5589, 730332>>,
       <<5614, 481529>>, <<5639, 229264>>, <<5663, 1022095>>, <<5688, 762857>>,
       <<5713, 500110>>, <<5738, 233838>>, <<5762, 1012603>>, <<5787, 739237>>,
       <<5812, 462301>>, <<5837, 181779>>, <<5861, 946233>>, <<5886, 658495>>,
       <<5911, 367125>>, <<5936, 72110>>, <<5960, 822008>>, <<5985, 519654>>,
       <<6010, 213607>>, <<6034, 952429>>, <<6059, 638953>>, <<6084, 321738>>,
       <<6109, 771>>, <<6133, 724611>>, <<6158, 396091>>, <<6183, 63773>>,
       <<6207, 776217>>, <<6232, 436255>>, <<6257, 92449>>, <<6281, 793360>>,
       <<6306, 441819>>, <<6331, 86388>>, <<6355, 775628>>, <<6380, 412372>>,
       <<6405, 45180>>, <<6429, 722612>>, <<6454, 347503>>, <<6478, 1016988>>,
       <<6503, 633901>>, <<6528, 246802>>, <<6552, 904252>>, <<6577, 509084>>,
       <<6602, 109858>>, <<6626, 755136>>, <<6651, 347750>>, <<6675, 984838>>,
       <<6700, 569231>>, <<6725, 149491>>, <<6749, 774179>>, <<6774, 346127>>,
       <<6798, 962473>>, <<6823, 526048>>, <<6848, 85415>>, <<6872, 689133>>,
       <<6897, 240036>>, <<6921, 835260>>, <<6946, 377639>>, <<6970, 964308>>,
       <<6995, 498102>>, <<7020, 27580>>, <<7044, 601305>>, <<7069, 122107>>,
       <<7093, 687125>>, <<7118, 199192>>, <<7142, 755443>>, <<7167, 258713>>,
       <<7191, 806137>>, <<7216, 300550>>, <<7240, 839087>>, <<7265, 324581>>,
       <<7289, 854170>>, <<7314, 330686>>, <<7338, 851266>>, <<7363, 318743>>,
       <<7387, 830254>>, <<7412, 288632>>, <<7436, 791014>>, <<7461, 240232>>,
       <<7485, 733424>>, <<7510, 173423>>, <<7534, 657365>>, <<7559, 88083>>,
       <<7583, 562714>>, <<7607, 1032667>>, <<7632, 449351>>, <<7656, 909904>>,
       <<7681, 317157>>, <<7705, 768247>>, <<7730, 166009>>, <<7754, 607578>>,
       <<7778, 1044364>>, <<7803, 427775>>, <<7827, 854949>>, <<7852, 228718>>,
       <<7876, 646220>>, <<7901, 10287>>, <<7925, 418056>>, <<7949, 820936>>,
       <<7974, 170337>>, <<7998, 563395>>, <<8022, 951518>>, <<8047, 286117>>,
       <<8071, 664328>>, <<8095, 1037560>>, <<8120, 357222>>, <<8144, 720451>>,
       <<8169, 30079>>, <<8193, 383245>>, <<8217, 731357>>, <<8242, 25823>>,
       <<8266, 363782>>, <<8290, 696641>>, <<8314, 1024386>>, <<8339, 298427>>,
       <<8363, 615899>>, <<8387, 928212>>, <<8412, 186775>>, <<8436, 488724>>,
       <<8460, 785470>>, <<8485, 28421>>, <<8509, 314714>>, <<8533, 595758>>,
       <<8557, 871538>>, <<8582, 93463>>, <<8606, 358670>>, <<8630, 618568>>,
       <<8654, 873143>>, <<8679, 73803>>, <<8703, 317685>>, <<8727, 556198>>,
       <<8751, 789328>>, <<8775, 1017060>>, <<8800, 190802>>, <<8824, 407691>>,
       <<8848, 619137>>, <<8872, 825125>>, <<8896, 1025640>>, <<8921, 172091>>,
       <<8945, 361614>>, <<8969, 545620>>, <<8993, 724093>>, <<9017, 897018>>,
       <<9042, 15805>>, <<9066, 177589>>, <<9090, 333782>>, <<9114, 484367>>,
       <<9138, 629330>>, <<9162, 768655>>, <<9186, 902329>>, <<9210, 1030336>>,
       <<9235, 104085>>, <<9259, 220713>>, <<9283, 331629>>, <<9307, 436820>>,
       <<9331, 536269>>, <<9355, 629961>>, <<9379, 717883>>, <<9403, 800019>>,
       <<9427, 876354>>, <<9451, 946874>>, <<9475, 1011563>>, <<9500, 21831>>,
       <<9524, 74815>>, <<9548, 121924>>, <<9572, 163144>>, <<9596, 198458>>,
       <<9620, 227854>>, <<9644, 251315>>, <<9668, 268827>>, <<9692, 280375>>,
       <<9716, 285944>>, <<9740, 285520>>, <<9764, 279088>>, <<9788, 266632>>,
       <<9812, 248139>>, <<9836, 223593>>, <<9860, 192979>>, <<9884, 156284>>,
       <<9908, 113491>>, <<9932, 64586>>, <<9956, 9555>>, <<9979, 996959>>,
       <<10003, 929630>>, <<10027, 856130>>, <<10051, 776445>>, <<10075, 690559>>,
       <<10099, 598459>>, <<10123, 500128>>, <<10147, 395552>>, <<10171, 284717>>,
       <<10195, 167608>>, <<10219, 44211>>, <<10242, 963085>>, <<10266, 827065>>,
       <<10290, 684712>>, <<10314, 536012>>, <<10338, 380948>>, <<10362, 219508>>,
       <<10386, 51676>>, <<10409, 926013>>, <<10433, 745352>>, <<10457, 558256>>,
       <<10481, 364709>>, <<10505, 164696>>, <<10528, 1006779>>, <<10552, 793792>>,
       <<10576, 574295>>, <<10600, 348274>>, <<10624, 115714>>, <<10647, 925177>>,
       <<10671, 679495>>, <<10695, 427231>>, <<10719, 168369>>, <<10742, 951471>>,
       <<10766, 679371>>, <<10790, 400629>>, <<10814, 115230>>, <<10837, 871738>>,
       <<10861, 572983>>, <<10885, 267529>>, <<10908, 1003937>>, <<10932, 685039>>,
       <<10956, 359397>>, <<10980, 26997>>, <<11003, 736400>>, <<11027, 390439>>,
       <<11051, 37676>>, <<11074, 726673>>, <<11098, 360261>>, <<11121, 1035580>>,
       <<11145, 655462>>, <<11169, 268469>>, <<11192, 923162>>, <<11216, 522375>>,
       <<11240, 114669>>, <<11263, 748606>>, <<11287, 327018>>, <<11310, 947044>>,
       <<11334, 511517>>, <<11358, 68998>>, <<11381, 668049>>, <<11405, 211503>>,
       <<11428, 796498>>, <<11452, 325867>>, <<11475, 896747>>, <<11499, 411973>>,
       <<11522, 968681>>, <<11546, 469706>>, <<11569, 1012184>>, <<11593, 498949>>,
       <<11616, 1027138>>, <<11640, 499586>>, <<11663, 1013429>>, <<11687, 471501>>,
       <<11710, 970940>>, <<11734, 414579>>, <<11757, 899556>>, <<11781, 328704>>,
       <<11804, 799160>>, <<11828, 213759>>, <<11851, 669637>>, <<11875, 69629>>,
       <<11898, 510872>>, <<11921, 944775>>, <<11945, 322748>>, <<11968, 741929>>,
       <<11992, 105150>>, <<12015, 509551>>, <<12038, 906539>>, <<12062, 247526>>,
       <<12085, 629648>>, <<12108, 1004314>>, <<12132, 322936>>, <<12155, 682649>>,
       <<12178, 1034865>>, <<12202, 330992>>, <<12225, 668167>>, <<12248, 997802>>,
       <<12272, 271304>>, <<12295, 585813>>, <<12318, 892737>>, <<12342, 143486>>,
       <<12365, 435198>>, <<12388, 719282>>, <<12411, 995724>>, <<12435, 215934>>,
       <<12458, 477049>>, <<12481, 730480>>, <<12504, 976211>>, <<12528, 165652>>,
       <<12551, 395941>>, <<12574, 618488>>, <<12597, 833278>>, <<12620, 1040298>>,
       <<12644, 190956>>, <<12667, 382390>>, <<12690, 566011>>, <<12713, 741803>>,
       <<12736, 909754>>, <<12760, 21271>>, <<12783, 173493>>, <<12806, 317830>>,
       <<12829, 454267>>, <<12852, 582791>>, <<12875, 703387>>, <<12898, 816040>>,
       <<12921, 920736>>, <<12944, 1017462>>, <<12968, 57626>>, <<12991, 138367>>,
       <<13014, 211095>>, <<13037, 275795>>, <<13060, 332453>>, <<13083, 381054>>,
       <<13106, 421585>>, <<13129, 454031>>, <<13152, 478379>>, <<13175, 494613>>,
       <<13198, 502720>>, <<13221, 502686>>, <<13244, 494496>>, <<13267, 478136>>,
       <<13290, 453592>>, <<13313, 420849>>, <<13336, 379895>>, <<13359, 330714>>,
       <<13382, 273292>>, <<13405, 207615>>, <<13428, 133669>>, <<13451, 51441>>,
       <<13473, 1009490>>, <<13496, 910653>>, <<13519, 803490>>, <<13542, 687987>>,
       <<13565, 564131>>, <<13588, 431906>>, <<13611, 291300>>, <<13634, 142297>>,
       <<13656, 1033460>>, <<13679, 867623>>, <<13702, 693348>>, <<13725, 510620>>,
       <<13748, 319425>>, <<13771, 119750>>, <<13793, 960156>>, <<13816, 743477>>,
       <<13839, 518276>>, <<13862, 284537>>, <<13885, 42248>>, <<13907, 839969>>,
       <<13930, 580536>>, <<13953, 312510>>, <<13976, 35876>>, <<13998, 799197>>,
       <<14021, 505307>>, <<14044, 202768>>, <<14066, 940142>>, <<14089, 620263>>,
       <<14112, 291692>>, <<14134, 1002993>>, <<14157, 656998>>, <<14180, 302270>>,
       <<14202, 987371>>, <<14225, 615135>>, <<14248, 234124>>, <<14270, 892899>>,
       <<14293, 494296>>, <<14316, 86876>>, <<14338, 719201>>, <<14361, 294105>>,
       <<14383, 908727>>, <<14406, 465899>>, <<14429, 14186>>, <<14451, 602147>>,
       <<14474, 132618>>, <<14496, 702737>>, <<14519, 215337>>, <<14541, 767558>>,
       <<14564, 262232>>, <<14586, 796498>>, <<14609, 273191>>, <<14631, 789447>>,
       <<14654, 248102>>, <<14676, 746294>>, <<14699, 186856>>, <<14721, 666927>>,
       <<14744, 89341>>, <<14766, 551236>>, <<14788, 1004023>>, <<14811, 399111>>,
       <<14833, 833638>>, <<14856, 210439>>, <<14878, 626652>>, <<14900, 1033688>>,
       <<14923, 382955>>, <<14945, 771593>>, <<14968, 102436>>, <<14990, 472622>>,
       <<15012, 833561>>, <<15035, 136663>>, <<15057, 479067>>, <<15079, 812183>>,
       <<15102, 87420>>, <<15124, 401918>>, <<15146, 707087>>, <<15168, 1002912>>,
       <<15191, 240804>>, <<15213, 517902>>, <<15235, 785615>>, <<15257, 1043930>>,
       <<15280, 244257>>, <<15302, 483734>>, <<15324, 713773>>, <<15346, 934358>>,
       <<15369, 96900>>, <<15391, 298538>>, <<15413, 490682>>, <<15435, 673318>>,
       <<15457, 846432>>, <<15479, 1010011>>, <<15502, 115466>>, <<15524, 259934>>,
       <<15546, 394826>>, <<15568, 520128>>, <<15590, 635827>>, <<15612, 741908>>,
       <<15634, 838359>>, <<15656, 925166>>, <<15678, 1002315>>, <<15701, 21216>>,
       <<15723, 79008>>, <<15745, 127101>>, <<15767, 165481>>, <<15789, 194136>>,
       <<15811, 213051>>, <<15833, 222213>>, <<15855, 221609>>, <<15877, 211224>>,
       <<15899, 191045>>, <<15921, 161059>>, <<15943, 121252>>, <<15965, 71610>>,
       <<15987, 12120>>, <<16008, 991345>>, <<16030, 912118>>, <<16052, 823003>>,
       <<16074, 723986>>, <<16096, 615053>>, <<16118, 496191>>, <<16140, 367386>>,
       <<16162, 228625>>, <<16184, 79894>>, <<16205, 969756>>, <<16227, 801046>>,
       <<16249, 622325>>, <<16271, 433581>>, <<16293, 234800>>, <<16315, 25968>>,
       <<16336, 855649>>, <<16358, 626676>>, <<16380, 387612>>, <<16402, 138444>>,
       <<16423, 927735>>, <<16445, 658318>>, <<16467, 378757>>, <<16489, 89038>>,
       <<16510, 837723>>, <<16532, 527648>>, <<16554, 207375>>, <<16575, 925466>>,
       <<16597, 584757>>, <<16619, 233809>>, <<16640, 921186>>, <<16662, 549722>>,
       <<16684, 167979>>, <<16705, 824521>>, <<16727, 422182>>, <<16749, 9525>>,
       <<16770, 635112>>, <<16792, 201778>>, <<16813, 806662>>, <<16835, 352598>>,
       <<16856, 936725>>, <<16878, 461878>>, <<16899, 1025196>>, <<16921, 529513>>,
       <<16943, 23392>>, <<16964, 555396>>, <<16986, 28359>>, <<17007, 539420>>,
       <<17028, 1039990>>, <<17050, 481480>>, <<17071, 961028>>, <<17093, 381469>>,
       <<17114, 839943>>, <<17136, 239283>>, <<17157, 676628>>, <<17179, 54814>>,
       <<17200, 470979>>, <<17221, 876534>>, <<17243, 222889>>, <<17264, 607184>>,
       <<17285, 980830>>, <<17307, 295237>>, <<17328, 647543>>, <<17349, 989161>>,
       <<17371, 271500>>, <<17392, 591699>>, <<17413, 901170>>, <<17435, 151324>>,
       <<17456, 439298>>, <<17477, 716504>>, <<17498, 982930>>, <<17520, 189985>>,
       <<17541, 434809>>, <<17562, 668812>>, <<17583, 891982>>, <<17605, 55729>>,
       <<17626, 257193>>, <<17647, 447783>>, <<17668, 627488>>, <<17689, 796294>>,
       <<17710, 954189>>, <<17732, 52582>>, <<17753, 188613>>, <<17774, 313693>>,
       <<17795, 427809>>, <<17816, 530948>>, <<17837, 623097>>, <<17858, 704242>>,
       <<17879, 774372>>, <<17900, 833472>>, <<17921, 881531>>, <<17942, 918534>>,
       <<17963, 944469>>, <<17984, 959323>>, <<18005, 963083>>, <<18026, 955737>>,
       <<18047, 937270>>, <<18068, 907670>>, <<18089, 866925>>, <<18110, 815021>>,
       <<18131, 751945>>, <<18152, 677685>>, <<18173, 592227>>, <<18194, 495559>>,
       <<18215, 387668>>, <<18236, 268540>>, <<18257, 138163>>, <<18277, 1045101>>,
       <<18298, 892188>>, <<18319, 727987>>, <<18340, 552485>>, <<18361, 365671>>,
       <<18382, 167530>>, <<18402, 1006626>>, <<18423, 785794>>, <<18444, 553597>>,
       <<18465, 310023>>, <<18486, 55059>>, <<18506, 837267>>, <<18527, 559484>>,
       <<18548, 270271>>, <<18568, 1018194>>, <<18589, 706086>>, <<18610, 382511>>,
       <<18631, 47456>>, <<18651, 749485>>, <<18672, 391432>>, <<18693, 21861>>,
       <<18713, 689336>>, <<18734, 296690>>, <<18754, 941065>>, <<18775, 525295>>,
       <<18796, 97943>>, <<18816, 707573>>, <<18837, 257019>>, <<18857, 843422>>,
       <<18878, 369616>>, <<18898, 932742>>, <<18919, 435633>>, <<18939, 975430>>,
       <<18960, 454968>>, <<18980, 971386>>, <<19001, 427520>>, <<19021, 920509>>,
       <<19042, 353188>>, <<19062, 822697>>, <<19083, 231871>>, <<19103, 677850>>,
       <<19124, 63468>>, <<19144, 485866>>, <<19164, 896454>>, <<19185, 246645>>,
       <<19205, 633577>>, <<19225, 1008662>>, <<19246, 323312>>, <<19266, 674666>>,
       <<19286, 1014134>>, <<19307, 293130>>, <<19327, 608792>>, <<19347, 912532>>,
       <<19368, 155761>>, <<19388, 435619>>, <<19408, 703517>>, <<19428, 959443>>,
       <<19449, 154808>>, <<19469, 386752>>, <<19489, 606687>>, <<19509, 814599>>,
       <<19529, 1010476>>, <<19550, 145731>>, <<19570, 317502>>, <<19590, 477201>>,
       <<19610, 624815>>, <<19630, 760333>>, <<19650, 883742>>, <<19670, 995028>>,
       <<19691, 45605>>, <<19711, 132612>>, <<19731, 207460>>, <<19751, 270136>>,
       <<19771, 320629>>, <<19791, 358926>>, <<19811, 385015>>, <<19831, 398883>>,
       <<19851, 400518>>, <<19871, 389908>>, <<19891, 367040>>, <<19911, 331902>>,
       <<19931, 284481>>, <<19951, 224767>>, <<19971, 152745>>, <<19991, 68404>>,
       <<20010, 1020308>>, <<20030, 911291>>, <<20050, 789919>>, <<20070, 656179>>,
       <<20090, 510057>>, <<20110, 351543>>, <<20130, 180624>>, <<20149, 1045864>>,
       <<20169, 850098>>, <<20189, 641891>>, <<20209, 421229>>, <<20229, 188101>>,
       <<20248, 991071>>, <<20268, 732974>>, <<20288, 462375>>, <<20308, 179261>>,
       <<20327, 932195>>, <<20347, 624014>>, <<20367, 303282>>, <<20386, 1018563>>,
       <<20406, 672691>>, <<20426, 314232>>, <<20445, 991749>>, <<20465, 608077>>,
       <<20485, 211782>>, <<20504, 851426>>, <<20524, 429846>>, <<20543, 1044181>>,
       <<20563, 597268>>, <<20583, 137670>>, <<20602, 713951>>, <<20622, 228948>>,
       <<20641, 779799>>, <<20661, 269342>>, <<20680, 794716>>, <<20700, 258757>>,
       <<20719, 758606>>, <<20739, 197097>>, <<20758, 671371>>, <<20778, 84264>>,
       <<20797, 532916>>, <<20816, 968740>>, <<20836, 343146>>, <<20855, 753276>>,
       <<20875, 101964>>, <<20894, 486352>>, <<20913, 857851>>, <<20933, 167873>>,
       <<20952, 513559>>, <<20971, 846320>>, <<20991, 117569>>, <<21010, 424445>>,
       <<21029, 718362>>, <<21048, 999305>>, <<21068, 218689>>, <<21087, 473653>>,
       <<21106, 715609>>, <<21125, 944546>>, <<21145, 111875>>, <<21164, 314736>>,
       <<21183, 504543>>, <<21202, 681282>>, <<21221, 844943>>, <<21240, 995513>>,
       <<21260, 84404>>, <<21279, 208757>>, <<21298, 319984>>, <<21317, 418073>>,
       <<21336, 503012>>, <<21355, 574791>>, <<21374, 633395>>, <<21393, 678815>>,
       <<21412, 711039>>, <<21431, 730053>>, <<21450, 735848>>, <<21469, 728411>>,
       <<21488, 707730>>, <<21507, 673794>>, <<21526, 626591>>, <<21545, 566109>>,
       <<21564, 492337>>, <<21583, 405263>>, <<21602, 304875>>, <<21621, 191162>>,
       <<21640, 64112>>, <<21658, 972289>>, <<21677, 818530>>, <<21696, 651398>>,
       <<21715, 470884>>, <<21734, 276974>>, <<21753, 69657>>, <<21771, 897498>>,
       <<21790, 663333>>, <<21809, 415726>>, <<21828, 154666>>, <<21846, 928718>>,
       <<21865, 640717>>, <<21884, 339228>>, <<21903, 24241>>, <<21921, 744318>>,
       <<21940, 402297>>, <<21959, 46741>>, <<21977, 726217>>, <<21996, 343559>>,
       <<22014, 995909>>, <<22033, 586103>>, <<22052, 162706>>, <<22070, 774282>>,
       <<22089, 323668>>, <<22107, 908003>>, <<22126, 430126>>, <<22144, 987175>>,
       <<22163, 481989>>, <<22181, 1011707>>, <<22200, 479166>>, <<22218, 981507>>,
       <<22237, 421566>>, <<22255, 896484>>, <<22274, 309098>>, <<22292, 756547>>,
       <<22311, 141669>>, <<22329, 561605>>, <<22347, 967766>>, <<22366, 311567>>,
       <<22384, 690146>>, <<22403, 6342>>, <<22421, 357294>>, <<22439, 694416>>,
       <<22457, 1017696>>, <<22476, 278546>>, <<22494, 574109>>, <<22512, 855795>>,
       <<22531, 75018>>, <<22549, 328919>>, <<22567, 568911>>, <<22585, 794981>>,
       <<22603, 1007120>>, <<22622, 156739>>, <<22640, 340980>>, <<22658, 511256>>,
       <<22676, 667554>>, <<22694, 809864>>, <<22712, 938175>>, <<22731, 3900>>,
       <<22749, 104179>>, <<22767, 190425>>, <<22785, 262627>>, <<22803, 320774>>,
       <<22821, 364855>>, <<22839, 394858>>, <<22857, 410773>>, <<22875, 412589>>,
       <<22893, 400293>>, <<22911, 373876>>, <<22929, 333326>>, <<22947, 278633>>,
       <<22965, 209784>>, <<22983, 126769>>, <<23001, 29576>>, <<23018, 966772>>,
       <<23036, 841193>>, <<23054, 701403>>, <<23072, 547392>>, <<23090, 379148>>,
       <<23108, 196662>>, <<23125, 1048497>>, <<23143, 837490>>, <<23161, 612208>>,
       <<23179, 372638>>, <<23197, 118770>>, <<23214, 899169>>, <<23232, 616672>>,
       <<23250, 319844>>, <<23268, 8674>>, <<23285, 731727>>, <<23303, 391840>>,
       <<23321, 37578>>, <<23338, 717507>>, <<23356, 334464>>, <<23373, 985589>>,
       <<23391, 573720>>, <<23409, 147421>>, <<23426, 755259>>, <<23444, 300070>>,
       <<23461, 878996>>, <<23479, 394873>>, <<23496, 944842>>, <<23514, 431742>>,
       <<23531, 952713>>, <<23549, 410592>>, <<23566, 902521>>, <<23584, 331336>>,
       <<23601, 794180>>, <<23619, 193888>>, <<23636, 627604>>, <<23653, 1046739>>,
       <<23671, 402707>>, <<23688, 792649>>, <<23706, 119403>>, <<23723, 480110>>,
       <<23740, 826183>>, <<23758, 109035>>, <<23775, 425808>>, <<23792, 727916>>,
       <<23809, 1015347>>, <<23827, 239514>>, <<23844, 497560>>, <<23861, 740898>>,
       <<23878, 969516>>, <<23896, 134828>>, <<23913, 333977>>, <<23930, 518374>>,
       <<23947, 688010>>, <<23964, 842873>>, <<23981, 982954>>, <<23999, 59666>>,
       <<24016, 170150>>, <<24033, 265819>>, <<24050, 346664>>, <<24067, 412673>>,
       <<24084, 463836>>, <<24101, 500143>>, <<24118, 521582>>, <<24135, 528145>>,
       <<24152, 519819>>, <<24169, 496594>>, <<24186, 458461>>, <<24203, 405408>>,
       <<24220, 337426>>, <<24237, 254503>>, <<24254, 156629>>, <<24271, 43795>>,
       <<24287, 964564>>, <<24304, 821776>>, <<24321, 663995>>, <<24338, 491211>>,
       <<24355, 303415>>, <<24372, 100594>>, <<24388, 931316>>, <<24405, 698417>>,
       <<24422, 450464>>, <<24439, 187446>>, <<24455, 957928>>, <<24472, 664749>>,
       <<24489, 356474>>, <<24506, 33093>>, <<24522, 743171>>, <<24539, 389546>>,
       <<24556, 20784>>, <<24572, 685451>>, <<24589, 286384>>, <<24605, 920725>>,
       <<24622, 491312>>, <<24639, 46711>>, <<24655, 635487>>, <<24672, 160478>>,
       <<24688, 718827>>, <<24705, 213370>>, <<24721, 741249>>, <<24738, 205303>>,
       <<24754, 702673>>, <<24771, 136198>>, <<24787, 603018>>, <<24804, 5972>>,
       <<24820, 442202>>, <<24836, 863121>>, <<24853, 220143>>, <<24869, 610411>>,
       <<24885, 985338>>, <<24902, 296339>>, <<24918, 640554>>, <<24934, 969398>>,
       <<24951, 234285>>, <<24967, 532357>>, <<24983, 815027>>, <<25000, 33711>>,
       <<25016, 285549>>, <<25032, 521956>>, <<25048, 742921>>, <<25064, 948435>>,
       <<25081, 89912>>, <<25097, 264494>>, <<25113, 423594>>, <<25129, 567204>>,
       <<25145, 695312>>, <<25161, 807909>>, <<25177, 904984>>, <<25193, 986529>>,
       <<25210, 3957>>, <<25226, 54411>>, <<25242, 89303>>, <<25258, 108625>>,
       <<25274, 112367>>, <<25290, 100518>>, <<25306, 73069>>, <<25322, 30010>>,
       <<25337, 1019906>>, <<25353, 945598>>, <<25369, 855649>>, <<25385, 750052>>,
       <<25401, 628795>>, <<25417, 491869>>, <<25433, 339264>>, <<25449, 170971>>,
       <<25464, 1035556>>, <<25480, 835856>>, <<25496, 620439>>, <<25512, 389294>>,
       <<25528, 142411>>, <<25543, 928358>>, <<25559, 649972>>, <<25575, 355819>>,
       <<25591, 45891>>, <<25606, 768752>>, <<25622, 427242>>, <<25638, 69927>>,
       <<25653, 745373>>, <<25669, 356418>>, <<25684, 1000205>>, <<25700, 579573>>,
       <<25716, 143087>>, <<25731, 739314>>, <<25747, 271092>>, <<25762, 835565>>,
       <<25778, 335569>>, <<25793, 868248>>, <<25809, 336440>>, <<25824, 837288>>,
       <<25840, 273630>>, <<25855, 742608>>, <<25871, 147061>>, <<25886, 584131>>,
       <<25901, 1005233>>, <<25917, 361782>>, <<25932, 750919>>, <<25948, 75484>>,
       <<25963, 432619>>, <<25978, 773738>>, <<25994, 50257>>, <<26009, 359317>>,
       <<26024, 652333>>, <<26039, 929295>>, <<26055, 141619>>, <<26070, 386447>>,
       <<26085, 615194>>, <<26100, 827849>>, <<26115, 1024404>>, <<26131, 156274>>,
       <<26146, 320600>>, <<26161, 468798>>, <<26176, 600859>>, <<26191, 716772>>,
       <<26206, 816529>>, <<26221, 900121>>, <<26236, 967537>>, <<26251, 1018770>>,
       <<26267, 5232>>, <<26282, 24068>>, <<26297, 26692>>, <<26312, 13094>>,
       <<26326, 1031842>>, <<26341, 985774>>, <<26356, 923458>>, <<26371, 844882>>,
       <<26386, 750040>>, <<26401, 638920>>, <<26416, 511515>>, <<26431, 367815>>,
       <<26446, 207811>>, <<26461, 31493>>, <<26475, 887429>>, <<26490, 678457>>,
       <<26505, 453145>>, <<26520, 211482>>, <<26534, 1002037>>, <<26549, 727647>>,
       <<26564, 436881>>, <<26579, 129728>>, <<26593, 854755>>, <<26608, 514803>>,
       <<26623, 158437>>, <<26637, 834224>>, <<26652, 445004>>, <<26667, 39343>>,
       <<26681, 665809>>, <<26696, 227240>>, <<26710, 820779>>, <<26725, 349266>>,
       <<26739, 909844>>, <<26754, 405351>>, <<26768, 932930>>, <<26783, 395421>>,
       <<26797, 889967>>, <<26812, 319407>>, <<26826, 780883>>, <<26841, 177235>>,
       <<26855, 605607>>, <<26869, 1017412>>, <<26884, 364067>>, <<26898, 742714>>,
       <<26913, 56192>>, <<26927, 401646>>, <<26941, 730489>>, <<26955, 1042713>>,
       <<26970, 289733>>, <<26984, 568693>>, <<26998, 831007>>, <<27013, 28091>>,
       <<27027, 257088>>, <<27041, 469413>>, <<27055, 665058>>, <<27069, 844014>>,
       <<27083, 1006271>>, <<27098, 103246>>, <<27112, 232081>>, <<27126, 344192>>,
       <<27140, 439570>>, <<27154, 518207>>, <<27168, 580093>>, <<27182, 625221>>,
       <<27196, 653580>>, <<27210, 665164>>, <<27224, 659963>>, <<27238, 637968>>,
       <<27252, 599171>>, <<27266, 543563>>, <<27280, 471136>>, <<27294, 381881>>,
       <<27308, 275790>>, <<27322, 152853>>, <<27336, 13063>>, <<27349, 904986>>,
       <<27363, 731463>>, <<27377, 541060>>, <<27391, 333770>>, <<27405, 109583>>,
       <<27418, 917067>>, <<27432, 659062>>, <<27446, 384135>>, <<27460, 92278>>,
       <<27473, 832058>>, <<27487, 506315>>, <<27501, 163616>>, <<27514, 852530>>,
       <<27528, 475894>>, <<27542, 82278>>, <<27555, 720248>>, <<27569, 292645>>,
       <<27582, 896611>>, <<27596, 434988>>, <<27609, 1004917>>, <<27623, 509239>>,
       <<27636, 1045097>>, <<27650, 515332>>, <<27663, 1017086>>, <<27677, 453200>>,
       <<27690, 920817>>, <<27704, 322776>>, <<27717, 756223>>, <<27731, 123996>>,
       <<27744, 523238>>, <<27757, 905367>>, <<27771, 221797>>, <<27784, 569672>>,
       <<27797, 900409>>, <<27811, 165422>>, <<27824, 461857>>, <<27837, 741127>>,
       <<27850, 1003226>>, <<27864, 199569>>, <<27877, 427300>>, <<27890, 637835>>,
       <<27903, 831165>>, <<27916, 1007284>>, <<27930, 117605>>, <<27943, 259274>>,
       <<27956, 383706>>, <<27969, 490893>>, <<27982, 580827>>, <<27995, 653500>>,
       <<28008, 708904>>, <<28021, 747031>>, <<28034, 767872>>, <<28047, 771421>>,
       <<28060, 757668>>, <<28073, 726605>>, <<28086, 678226>>, <<28099, 612521>>,
       <<28112, 529483>>, <<28125, 429104>>, <<28138, 311376>>, <<28151, 176291>>,
       <<28164, 23840>>, <<28176, 902593>>, <<28189, 715388>>, <<28202, 510795>>,
       <<28215, 288805>>, <<28228, 49411>>, <<28240, 841180>>, <<28253, 566953>>,
       <<28266, 275297>>, <<28278, 1014781>>, <<28291, 688246>>, <<28304, 344259>>,
       <<28316, 1031388>>, <<28329, 652474>>, <<28342, 256085>>, <<28354, 890789>>,
       <<28367, 459426>>, <<28380, 10565>>, <<28392, 592773>>, <<28405, 108892>>,
       <<28417, 656065>>, <<28430, 137132>>, <<28442, 649239>>, <<28455, 95224>>,
       <<28467, 572233>>, <<28479, 1031682>>, <<28492, 424987>>, <<28504, 849292>>,
       <<28517, 207438>>, <<28529, 596570>>, <<28541, 968102>>, <<28554, 273453>>,
       <<28566, 609766>>, <<28578, 928458>>, <<28591, 180945>>, <<28603, 464371>>,
       <<28615, 730153>>, <<28627, 978284>>, <<28640, 160180>>, <<28652, 372984>>,
       <<28664, 568115>>, <<28676, 745564>>, <<28688, 905324>>, <<28700, 1047387>>,
       <<28713, 123169>>, <<28725, 229817>>, <<28737, 318744>>, <<28749, 389946>>,
       <<28761, 443413>>, <<28773, 479139>>, <<28785, 497115>>, <<28797, 497336>>,
       <<28809, 479793>>, <<28821, 444478>>, <<28833, 391386>>, <<28845, 320507>>,
       <<28857, 231835>>, <<28869, 125362>>, <<28881, 1082>>, <<28892, 907562>>,
       <<28904, 747644>>, <<28916, 569896>>, <<28928, 374310>>, <<28940, 160880>>,
       <<28951, 978175>>, <<28963, 729034>>, <<28975, 462028>>, <<28987, 177147>>,
       <<28998, 922962>>, <<29010, 602313>>, <<29022, 263769>>, <<29033, 955898>>,
       <<29045, 581542>>, <<29057, 189269>>, <<29068, 827648>>, <<29080, 399520>>,
       <<29091, 1002030>>, <<29103, 538019>>, <<29115, 56054>>, <<29126, 604707>>,
       <<29138, 86816>>, <<29149, 599528>>, <<29161, 45683>>, <<29172, 522426>>,
       <<29183, 981173>>, <<29195, 373343>>, <<29206, 796079>>, <<29218, 152224>>,
       <<29229, 538921>>, <<29240, 907587>>, <<29252, 209641>>, <<29263, 542226>>,
       <<29274, 856761>>, <<29286, 104661>>, <<29297, 383071>>, <<29308, 643410>>,
       <<29319, 885670>>, <<29331, 61268>>, <<29342, 267348>>, <<29353, 455330>>,
       <<29364, 625204>>, <<29375, 776965>>, <<29386, 910605>>, <<29397, 1026118>>,
       <<29409, 74921>>, <<29420, 154159>>, <<29431, 215250>>, <<29442, 258185>>,
       <<29453, 282959>>, <<29464, 289565>>, <<29475, 277996>>, <<29486, 248245>>,
       <<29497, 200305>>, <<29508, 134170>>, <<29519, 49833>>, <<29529, 995863>>,
       <<29540, 875102>>, <<29551, 736118>>, <<29562, 578905>>, <<29573, 403457>>,
       <<29584, 209766>>, <<29594, 1046402>>, <<29605, 816207>>, <<29616, 567749>>,
       <<29627, 301022>>, <<29638, 16020>>, <<29648, 761311>>, <<29659, 439738>>,
       <<29670, 99869>>, <<29680, 790274>>, <<29691, 413795>>, <<29702, 19000>>,
       <<29712, 654460>>, <<29723, 223016>>, <<29733, 821813>>, <<29744, 353692>>,
       <<29754, 915800>>, <<29765, 410977>>, <<29775, 936370>>, <<29786, 394819>>,
       <<29796, 883470>>, <<29807, 305166>>, <<29817, 757051>>, <<29828, 141966>>,
       <<29838, 557058>>, <<29848, 953745>>, <<29859, 283443>>, <<29869, 643298>>,
       <<29879, 984728>>, <<29890, 259151>>, <<29900, 563712>>, <<29910, 849829>>,
       <<29921, 68919>>, <<29931, 318128>>, <<29941, 548875>>, <<29951, 761152>>,
       <<29961, 954953>>, <<29972, 81696>>, <<29982, 238527>>, <<29992, 376863>>,
       <<30002, 496699>>, <<30012, 598027>>, <<30022, 680843>>, <<30032, 745138>>,
       <<30042, 790908>>, <<30052, 818147>>, <<30062, 826847>>, <<30072, 817003>>,
       <<30082, 788608>>, <<30092, 741657>>, <<30102, 676143>>, <<30112, 592061>>,
       <<30122, 489403>>, <<30132, 368165>>, <<30142, 228339>>, <<30152, 69920>>,
       <<30161, 941478>>, <<30171, 745854>>, <<30181, 531619>>, <<30191, 298767>>,
       <<30201, 47291>>, <<30210, 825761>>, <<30220, 537020>>, <<30230, 229637>>,
       <<30239, 952183>>, <<30249, 607500>>, <<30259, 244157>>, <<30268, 910724>>,
       <<30278, 510044>>, <<30288, 90687>>, <<30297, 701223>>, <<30307, 244493>>,
       <<30316, 817645>>, <<30326, 323519>>, <<30335, 859263>>, <<30345, 327718>>,
       <<30354, 826031>>, <<30364, 257043>>, <<30373, 717901>>, <<30383, 111447>>,
       <<30392, 534828>>, <<30401, 939460>>, <<30411, 276763>>, <<30420, 643883>>,
       <<30429, 992238>>, <<30439, 273247>>, <<30448, 584054>>, <<30457, 876080>>,
       <<30467, 100742>>, <<30476, 355186>>, <<30485, 590831>>, <<30494, 807670>>,
       <<30503, 1005699>>, <<30513, 136336>>, <<30522, 296727>>, <<30531, 438289>>,
       <<30540, 561019>>, <<30549, 664910>>, <<30558, 749956>>, <<30567, 816152>>,
       <<30576, 863492>>, <<30585, 891971>>, <<30594, 901583>>, <<30603, 892323>>,
       <<30612, 864184>>, <<30621, 817162>>, <<30630, 751251>>, <<30639, 666446>>,
       <<30648, 562740>>, <<30657, 440129>>, <<30666, 298607>>, <<30675, 138168>>,
       <<30683, 1007383>>, <<30692, 809095>>, <<30701, 591874>>, <<30710, 355715>>,
       <<30719, 100612>>, <<30727, 875136>>, <<30736, 582130>>, <<30745, 270163>>,
       <<30753, 987808>>, <<30762, 637906>>, <<30771, 269028>>, <<30779, 929744>>,
       <<30788, 522899>>, <<30797, 97061>>, <<30805, 700802>>, <<30814, 236964>>,
       <<30822, 802695>>, <<30831, 300837>>, <<30839, 828537>>, <<30848, 288637>>,
       <<30856, 778284>>, <<30865, 200321>>, <<30873, 651895>>, <<30882, 35849>>,
       <<30890, 449329>>, <<30898, 843754>>, <<30907, 170543>>, <<30915, 526843>>,
       <<30923, 864073>>, <<30932, 133652>>, <<30940, 432726>>, <<30948, 712715>>,
       <<30956, 973612>>, <<30965, 166838>>, <<30973, 389540>>, <<30981, 593135>>,
       <<30989, 777619>>, <<30997, 942987>>, <<31006, 40658>>, <<31014, 167780>>,
       <<31022, 275770>>, <<31030, 364623>>, <<31038, 434336>>, <<31046, 484903>>,
       <<31054, 516319>>, <<31062, 528579>>, <<31070, 521677>>, <<31078, 495610>>,
       <<31086, 450373>>, <<31094, 385959>>, <<31102, 302365>>, <<31110, 199586>>,
       <<31118, 77616>>, <<31125, 985027>>, <<31133, 824662>>, <<31141, 645092>>,
       <<31149, 446313>>, <<31157, 228318>>, <<31164, 1039681>>, <<31172, 783243>>,
       <<31180, 507577>>, <<31188, 212677>>, <<31195, 947114>>, <<31203, 613732>>,
       <<31211, 261102>>, <<31218, 937796>>, <<31226, 546656>>, <<31234, 136254>>,
       <<31241, 755161>>, <<31249, 306221>>, <<31256, 886581>>, <<31264, 399084>>,
       <<31271, 940877>>, <<31279, 414805>>, <<31286, 918013>>, <<31294, 353347>>,
       <<31301, 817952>>, <<31309, 214673>>, <<31316, 640657>>, <<31323, 1047323>>,
       <<31331, 386091>>, <<31338, 754108>>, <<31346, 54218>>, <<31353, 383568>>,
       <<31360, 693578>>, <<31367, 984243>>, <<31375, 206982>>, <<31382, 458944>>,
       <<31389, 691548>>, <<31396, 904789>>, <<31404, 50086>>, <<31411, 224588>>,
       <<31418, 379714>>, <<31425, 515460>>, <<31432, 631821>>, <<31439, 728792>>,
       <<31446, 806370>>, <<31453, 864550>>, <<31460, 903328>>, <<31467, 922699>>,
       <<31474, 922659>>, <<31481, 903204>>, <<31488, 864330>>, <<31495, 806031>>,
       <<31502, 728304>>, <<31509, 631145>>, <<31516, 514549>>, <<31523, 378512>>,
       <<31530, 223030>>, <<31537, 48099>>, <<31543, 902289>>, <<31550, 688446>>,
       <<31557, 455141>>, <<31564, 202370>>, <<31570, 978705>>, <<31577, 686988>>,
       <<31584, 375794>>, <<31591, 45116>>, <<31597, 743527>>, <<31604, 373872>>,
       <<31610, 1033297>>, <<31617, 624647>>, <<31624, 196493>>, <<31630, 797409>>,
       <<31637, 330237>>, <<31643, 892125>>, <<31650, 385918>>, <<31656, 908763>>,
       <<31663, 363505>>, <<31669, 847291>>, <<31676, 262965>>, <<31682, 707677>>,
       <<31689, 84268>>, <<31695, 489889>>, <<31701, 875957>>, <<31708, 193895>>,
       <<31714, 540849>>, <<31720, 868241>>, <<31727, 127489>>, <<31733, 415743>>,
       <<31739, 684421>>, <<31745, 933521>>, <<31752, 114463>>, <<31758, 324394>>,
       <<31764, 514735>>, <<31770, 685483>>, <<31776, 836632>>, <<31782, 968180>>,
       <<31789, 31547>>, <<31795, 123880>>, <<31801, 196601>>, <<31807, 249705>>,
       <<31813, 283189>>, <<31819, 297049>>, <<31825, 291281>>, <<31831, 265882>>,
       <<31837, 220848>>, <<31843, 156175>>, <<31849, 71859>>, <<31854, 1016473>>,
       <<31860, 892862>>, <<31866, 749597>>, <<31872, 586675>>, <<31878, 404093>>,
       <<31884, 201846>>, <<31889, 1028508>>, <<31895, 786922>>, <<31901, 525661>>,
       <<31907, 244722>>, <<31912, 992677>>, <<31918, 672370>>, <<31924, 332375>>,
       <<31929, 1021263>>, <<31935, 641878>>, <<31941, 242795>>, <<31946, 872584>>,
       <<31952, 434091>>, <<31957, 1024464>>, <<31963, 546548>>, <<31969, 48915>>,
       <<31974, 580138>>, <<31980, 43062>>, <<31985, 534835>>, <<31990, 1006877>>,
       <<31996, 410610>>, <<32001, 843181>>, <<32007, 207437>>, <<32012, 600525>>,
       <<32017, 973865>>, <<32023, 278880>>, <<32028, 612717>>, <<32033, 926797>>,
       <<32039, 172541>>, <<32044, 447098>>, <<32049, 701888>>, <<32054, 936908>>,
       <<32060, 103579>>, <<32065, 299050>>, <<32070, 474741>>, <<32075, 630650>>,
       <<32080, 766773>>, <<32085, 883107>>, <<32090, 979649>>, <<32096, 7819>>,
       <<32101, 64767>>, <<32106, 101913>>, <<32111, 119255>>, <<32116, 116789>>,
       <<32121, 94512>>, <<32126, 52422>>, <<32130, 1039090>>, <<32135, 957362>>,
       <<32140, 855812>>, <<32145, 734435>>, <<32150, 593229>>, <<32155, 432191>>,
       <<32160, 251318>>, <<32165, 50607>>, <<32169, 878631>>, <<32174, 638235>>,
       <<32179, 377992>>, <<32184, 97899>>, <<32188, 846529>>, <<32193, 526728>>,
       <<32198, 187068>>, <<32202, 876123>>, <<32207, 496737>>, <<32212, 97484>>,
       <<32216, 726937>>, <<32221, 287942>>, <<32225, 877646>>, <<32230, 398896>>,
       <<32234, 948841>>, <<32239, 430326>>, <<32243, 940499>>, <<32248, 382207>>,
       <<32252, 852599>>, <<32257, 254520>>, <<32261, 685118>>, <<32266, 47240>>,
       <<32270, 438035>>, <<32274, 808924>>, <<32279, 111328>>, <<32283, 442396>>,
       <<32287, 753551>>, <<32291, 1044789>>, <<32296, 267531>>, <<32300, 518928>>,
       <<32304, 750400>>, <<32308, 961945>>, <<32313, 104984>>, <<32317, 276667>>,
       <<32321, 428414>>, <<32325, 560225>>, <<32329, 672095>>, <<32333, 764023>>,
       <<32337, 836006>>, <<32341, 888041>>, <<32345, 920126>>, <<32349, 932258>>,
       <<32353, 924436>>, <<32357, 896656>>, <<32361, 848916>>, <<32365, 781214>>,
       <<32369, 693547>>, <<32373, 585912>>, <<32377, 458308>>, <<32381, 310732>>,
       <<32385, 143182>>, <<32388, 1004230>>, <<32392, 796724>>, <<32396, 569236>>,
       <<32400, 321764>>, <<32404, 54306>>, <<32407, 815436>>, <<32411, 507999>>,
       <<32415, 180569>>, <<32418, 881720>>, <<32422, 514297>>, <<32426, 126874>>,
       <<32429, 768025>>, <<32433, 340596>>, <<32436, 941737>>, <<32440, 474292>>,
       <<32443, 1035413>>, <<32447, 527945>>, <<32451, 461>>, <<32454, 501536>>,
       <<32457, 982592>>, <<32461, 395050>>, <<32464, 836060>>, <<32468, 208468>>,
       <<32471, 609424>>, <<32474, 990350>>, <<32478, 302667>>, <<32481, 643527>>,
       <<32484, 964350>>, <<32488, 216559>>, <<32491, 497304>>, <<32494, 758006>>,
       <<32497, 998664>>, <<32501, 170699>>, <<32504, 371262>>, <<32507, 551775>>,
       <<32510, 712236>>, <<32513, 852642>>, <<32516, 972992>>, <<32520, 24708>>,
       <<32523, 104940>>, <<32526, 165110>>, <<32529, 205217>>, <<32532, 225257>>,
       <<32535, 225231>>, <<32538, 205135>>, <<32541, 164967>>, <<32544, 104727>>,
       <<32547, 24412>>, <<32549, 972596>>, <<32552, 852126>>, <<32555, 711575>>,
       <<32558, 550943>>, <<32561, 370227>>, <<32564, 169425>>, <<32566, 997113>>,
       <<32569, 756135>>, <<32572, 495066>>, <<32575, 213906>>, <<32577, 961227>>,
       <<32580, 639876>>, <<32583, 298429>>, <<32585, 985458>>, <<32588, 603810>>,
       <<32591, 202061>>, <<32593, 828783>>, <<32596, 386824>>, <<32598, 973334>>,
       <<32601, 491159>>, <<32603, 1037450>>, <<32606, 515053>>, <<32608, 1021119>>,
       <<32611, 458494>>, <<32613, 924328>>, <<32616, 321469>>, <<32618, 747066>>,
       <<32621, 103967>>, <<32623, 489321>>, <<32625, 854552>>, <<32628, 151081>>,
       <<32630, 476059>>, <<32632, 780909>>, <<32635, 17054>>, <<32637, 281644>>,
       <<32639, 526102>>, <<32641, 750426>>, <<32643, 954615>>, <<32646, 90091>>,
       <<32648, 254006>>, <<32650, 397781>>, <<32652, 521417>>, <<32654, 624910>>,
       <<32656, 708261>>, <<32658, 771467>>, <<32660, 814528>>, <<32662, 837442>>,
       <<32664, 840207>>, <<32666, 822824>>, <<32668, 785290>>, <<32670, 727604>>,
       <<32672, 649766>>, <<32674, 551773>>, <<32676, 433625>>, <<32678, 295321>>,
       <<32680, 136859>>, <<32681, 1006814>>, <<32683, 808033>>, <<32685, 589091>>,
       <<32687, 349988>>, <<32689, 90721>>, <<32690, 859865>>, <<32692, 560269>>,
       <<32694, 240506>>, <<32695, 949151>>, <<32697, 589053>>, <<32699, 208784>>,
       <<32700, 856921>>, <<32702, 436311>>, <<32703, 1044104>>, <<32705, 583148>>,
       <<32707, 102017>>, <<32708, 649287>>, <<32710, 127804>>, <<32711, 634720>>,
       <<32713, 72882>>, <<32714, 539441>>, <<32715, 985821>>, <<32717, 363443>>,
       <<32718, 769459>>, <<32720, 106717>>, <<32721, 472368>>, <<32722, 817834>>,
       <<32724, 94539>>, <<32725, 399635>>, <<32726, 684544>>, <<32727, 949265>>,
       <<32729, 145222>>, <<32730, 369566>>, <<32731, 573721>>, <<32732, 757685>>,
       <<32733, 921457>>, <<32735, 16462>>, <<32736, 139850>>, <<32737, 243045>>,
       <<32738, 326046>>, <<32739, 388853>>, <<32740, 431464>>, <<32741, 453879>>,
       <<32742, 456097>>, <<32743, 438119>>, <<32744, 399942>>, <<32745, 341568>>,
       <<32746, 262994>>, <<32747, 164221>>, <<32748, 45247>>, <<32748, 954649>>,
       <<32749, 795274>>, <<32750, 615697>>, <<32751, 415918>>, <<32752, 195936>>,
       <<32752, 1004327>>, <<32753, 743939>>, <<32754, 463346>>, <<32755, 162548>>,
       <<32755, 890122>>, <<32756, 548914>>, <<32757, 187500>>, <<32757, 854456>>,
       <<32758, 452630>>, <<32759, 30596>>, <<32759, 636931>>, <<32760, 174482>>,
       <<32760, 740401>>, <<32761, 237536>>, <<32761, 763037>>, <<32762, 219754>>,
       <<32762, 704837>>, <<32763, 121135>>, <<32763, 565799>>, <<32763, 990252>>,
       <<32764, 345919>>, <<32764, 729952>>, <<32765, 45197>>, <<32765, 388808>>,
       <<32765, 712207>>, <<32765, 1015394>>, <<32766, 249794>>, <<32766, 512558>>,
       <<32766, 755110>>, <<32766, 977450>>, <<32767, 131001>>, <<32767, 312916>>,
       <<32767, 474619>>, <<32767, 616109>>, <<32767, 737386>>, <<32767, 838450>>,
       <<32767, 919302>>, <<32767, 979941>>, <<32767, 1020367>>, <<32767, 1040580>>
    >>

(* ---------------- the sweep of main(), over a sample of the phases ----- *)
(* main() evaluates every phase 0 .. FULL_CIRCLE-1 (2^32 of them); the     *)
(* model's sweep visits, in increasing order, the phases whose index and   *)
(* residual fields are among the samples below, in all four quadrants.     *)
EdgeIdx == 2
IdxStride == 293
EdgeRes == 3
ResStride == 65537
MaxOutOfRange == 2

IdxSamples ==
    {k \in 0..(TABLE_SIZE - 1) : k < EdgeIdx \/ k >= TABLE_SIZE - EdgeIdx}
    \cup {j * IdxStride : j \in 0..((TABLE_SIZE - 1) \div IdxStride)}
ResSamples ==
    (0..(EdgeRes - 1)) \cup ((CORDIC_MASK + 1 - EdgeRes)..CORDIC_MASK)
    \cup {j * ResStride : j \in 0..(CORDIC_MASK \div ResStride)}

(* the phase with quadrant q, table index k and residual r *)
MkPhase(q, k, r) ==
    WAdd(WAdd(<<q * Pow2(INDEX_BITS + CORDIC_BITS - LIMB_BITS), 0>>,
              <<k \div Pow2(LIMB_BITS - CORDIC_BITS),
                (k % Pow2(LIMB_BITS - CORDIC_BITS)) * Pow2(CORDIC_BITS)>>),
         WInt(r))

SetMin(S) == CHOOSE x \in S : \A y \in S : x <= y

(* pc            where main is: "setup", "call" (line 211), "test" (line   *)
(*               215), "sum" (line 221), "done"                            *)
(* a, s, c       main's phase and the values the last call stored          *)
(* first         the s and c of the untraced call of line 211, which es    *)
(*               and ec are computed from                                  *)
(* show, printed the show argument of the last call and the rows it printed*)
(* work          the (x, y, z) the last call had on entering its loop and  *)
(*               after each iteration                                      *)
(* out_of_range, count   main's counters                                   *)
(* angles, shifts, initial   the three global tables                       *)
(* notes         how many times setup printed the constant-angles note     *)
VARIABLES pc, a, s, c, first, show, printed, work, out_of_range, count,
          angles, shifts, initial, notes
vars == <<pc, a, s, c, first, show, printed, work, out_of_range, count,
          angles, shifts, initial, notes>>
tables == <<angles, shifts, initial>>

(* ---------------- cordic_sine_cosine (lines 140-190) ------------------- *)
quadrant_bit1(z) == WLowBits(WShr(z, CORDIC_BITS + INDEX_BITS + 1), 1)
quadrant_bit0(z) == WLowBits(WShr(z, CORDIC_BITS + INDEX_BITS), 1)
(* (z & INDEX_MASK) >> CORDIC_BITS: bits CORDIC_BITS .. CORDIC_BITS+INDEX_BITS-1 *)
index(z) == WLowBits(WShr(z, CORDIC_BITS), INDEX_BITS)
(* (z & CORDIC_MASK) << Z_EXTRA_BITS: below 2^21, held as a plain integer *)
residual(z) == WLowBits(z, CORDIC_BITS) * Pow2(Z_EXTRA_BITS)

(* faulty variant: the sine flip taken from the low quadrant bit *)
flip_sin_sign_bit0(z) == quadrant_bit0(z) = 1
flip_sin_sign(z) == quadrant_bit1(z) = 1
(* faulty variant: the XOR with the low quadrant bit left out *)
flip_cos_sign_noxor(z) == quadrant_bit1(z) = 1
flip_cos_sign(z) == quadrant_bit1(z) # quadrant_bit0(z)

(* faulty variant: the residual is never folded *)
fold_never(z) == residual(z)
(* lines 155-156: fold the residual in odd quadrants *)
fold(z) ==
    IF quadrant_bit0(z) = 1
    THEN Pow2(CORDIC_BITS + Z_EXTRA_BITS) - residual(z)
    ELSE residual(z)
(* faulty variant: the target offset is not subtracted *)
CentredZ_nooffset(z) == fold(z)
(* line 158: centre the residual on the middle of the table sector *)
CentredZ(z) == fold(z) - TARGET

(* lines 162-168: the starting vector, read from the two table ports *)
StartX(z) ==
    IF quadrant_bit0(z) = 1 THEN initial[index(z)]
    ELSE initial[TABLE_SIZE - 1 - index(z)]
StartY(z) ==
    IF quadrant_bit0(z) = 1 THEN initial[TABLE_SIZE - 1 - index(z)]
    ELSE initial[index(z)]
StartVector(z) == [x |-> StartX(z), y |-> StartY(z), z |-> CentredZ(z)]

(* faulty variant: the traced call leaves out the doubling of z *)
CordicStep_traced(v, i, trace) ==
    LET tx == WShr(v.x, shifts[i])
        ty == WShr(v.y, shifts[i])
        z1 == v.z + (IF v.z < 0 THEN angles[i] ELSE -angles[i])
    IN  [x |-> WSub(v.x, IF v.z < 0 THEN WNeg(ty) ELSE ty),
         y |-> WAdd(v.y, IF v.z < 0 THEN WNeg(tx) ELSE tx),
         z |-> IF trace THEN z1 ELSE z1 * 2]
(* lines 176-182: one iteration.  z <<= 1 doubles z (gcc and clang define  *)
(* the left shift of a negative value as the two's-complement shift).      *)
CordicStep(v, i, trace) ==
    LET tx == WShr(v.x, shifts[i])
        ty == WShr(v.y, shifts[i])
    IN  [x |-> WSub(v.x, IF v.z < 0 THEN WNeg(ty) ELSE ty),
         y |-> WAdd(v.y, IF v.z < 0 THEN WNeg(tx) ELSE tx),
         z |-> (v.z + (IF v.z < 0 THEN angles[i] ELSE -angles[i])) * 2]

(* lines 175-187: the vectors after iterations i, i+1, .., CORDIC_REPS-1 *)
RECURSIVE CordicLoop(_, _, _)
CordicLoop(v, i, trace) ==
    IF i >= CORDIC_REPS THEN <<>>
    ELSE LET n == CordicStep(v, i, trace)
         IN  <<n>> \o CordicLoop(n, i + 1, trace)

(* faulty variant: one guard bit too few is dropped *)
Output_shortshift(v, flip) == WShr(IF flip THEN WNeg(v) ELSE v, OUTPUT_EXTRA_BITS - 1)
(* lines 188-189: apply the sign flip and drop the guard bits *)
Output(v, flip) == WShr(IF flip THEN WNeg(v) ELSE v, OUTPUT_EXTRA_BITS)

(* the whole call: the values stored through s and c, the (y, x, z) rows   *)
(* it prints when show is set, and the sequence of vectors it went through *)
cordic_sine_cosine(z, trace) ==
    LET v0 == StartVector(z)
        run == <<v0>> \o CordicLoop(v0, 0, trace)
        end == run[Len(run)]
    IN  [c |-> Output(end.x, flip_cos_sign(z)),
         s |-> Output(end.y, flip_sin_sign(z)),
         printed |-> IF trace THEN [j \in 1..Len(run) |-> <<run[j].y, run[j].x, run[j].z>>]
                     ELSE <<>>,
         run |-> run]

(* ---------------- setup (lines 102-134) -------------------------------- *)
AngleEntry(i) == ScaledAtan[i + 1] + 1
ShiftEntry(i) == INDEX_BITS + i
InitialEntry(i) == SineValues[i + 1]
(* faulty variant: the test is inverted *)
ConstantAngles_inverted(t) == t[0] # t[CORDIC_REPS - 1]
(* line 129: the test deciding whether the note is printed *)
ConstantAngles(t) == t[0] = t[CORDIC_REPS - 1]

Setup ==
    /\ pc = "setup"
    /\ angles' = [i \in 0..(CORDIC_REPS - 1) |-> AngleEntry(i)]
    /\ shifts' = [i \in 0..(CORDIC_REPS - 1) |-> ShiftEntry(i)]
    /\ initial' = [i \in 0..(TABLE_SIZE - 1) |-> InitialEntry(i)]
    /\ notes' = IF ConstantAngles(angles') THEN notes + 1 ELSE notes
    /\ pc' = "call"
    /\ UNCHANGED <<a, s, c, first, show, printed, work, out_of_range, count>>

(* ---------------- main (lines 193-236) --------------------------------- *)
(* a++ of line 207, restricted to the sampled phases *)
NextPhase(p) ==
    LET q == 2 * quadrant_bit1(p) + quadrant_bit0(p)
        rs == {r \in ResSamples : r > WLowBits(p, CORDIC_BITS)}
        ks == {k \in IdxSamples : k > index(p)}
    IN  IF rs # {} THEN MkPhase(q, index(p), SetMin(rs))
        ELSE IF ks # {} THEN MkPhase(q, SetMin(ks), SetMin(ResSamples))
        ELSE IF q < 3 THEN MkPhase(q + 1, SetMin(IdxSamples), SetMin(ResSamples))
        ELSE FULL_CIRCLE

(* faulty variant: the call scribbles its final z into angles[0] *)
Evaluate_clobber ==
    /\ pc = "call"
    /\ WLess(a, FULL_CIRCLE)
    /\ LET r == cordic_sine_cosine(a, FALSE)
       IN  /\ s' = r.s
           /\ c' = r.c
           /\ first' = <<r.s, r.c>>
           /\ printed' = r.printed
           /\ work' = r.run
           /\ angles' = [angles EXCEPT ![0] = r.run[Len(r.run)].z]
    /\ show' = FALSE
    /\ pc' = "test"
    /\ UNCHANGED <<a, out_of_range, count, shifts, initial, notes>>
(* lines 211-213: the untraced call whose deviation es, ec is measured *)
Evaluate ==
    /\ pc = "call"
    /\ WLess(a, FULL_CIRCLE)
    /\ LET r == cordic_sine_cosine(a, FALSE)
       IN  /\ s' = r.s
           /\ c' = r.c
           /\ first' = <<r.s, r.c>>
           /\ printed' = r.printed
           /\ work' = r.run
    /\ show' = FALSE
    /\ pc' = "test"
    /\ UNCHANGED <<a, out_of_range, count, tables, notes>>

(* line 215 false: the deviation from the libm reference is below MAX_ERROR *)
WithinLimit ==
    /\ pc = "test"
    /\ pc' = "sum"
    /\ UNCHANGED <<a, s, c, first, show, printed, work, out_of_range, count, tables, notes>>

(* lines 215-219: the deviation reaches MAX_ERROR; the phase is counted,   *)
(* evaluated again with the trace on and reported.  The reference values   *)
(* are libm doubles, which the model leaves open: either branch may run.   *)
OverLimit ==
    /\ pc = "test"
    /\ out_of_range < MaxOutOfRange
    /\ out_of_range' = out_of_range + 1
    /\ LET r == cordic_sine_cosine(a, TRUE)
       IN  /\ s' = r.s
           /\ c' = r.c
           /\ printed' = r.printed
           /\ work' = r.run
    /\ show' = TRUE
    /\ pc' = "sum"
    /\ UNCHANGED <<a, first, count, tables, notes>>

(* lines 221-231 and the a++ of line 207 *)
Accumulate ==
    /\ pc = "sum"
    /\ count' = count + 1
    /\ a' = NextPhase(a)
    /\ pc' = "call"
    /\ UNCHANGED <<s, c, first, show, printed, work, out_of_range, tables, notes>>

(* lines 233-235: the loop is over *)
Finish ==
    /\ pc = "call"
    /\ ~WLess(a, FULL_CIRCLE)
    /\ pc' = "done"
    /\ UNCHANGED <<a, s, c, first, show, printed, work, out_of_range, count, tables, notes>>

Init ==
    /\ pc = "setup"
    /\ a = WInt(0)
    /\ s = WInt(0)
    /\ c = WInt(0)
    /\ first = <<WInt(0), WInt(0)>>
    /\ show = FALSE
    /\ printed = <<>>
    /\ work = <<>>
    /\ out_of_range = 0
    /\ count = 0
    /\ angles = [i \in 0..(CORDIC_REPS - 1) |-> 0]
    /\ shifts = [i \in 0..(CORDIC_REPS - 1) |-> 0]
    /\ initial = [i \in 0..(TABLE_SIZE - 1) |-> WInt(0)]
    /\ notes = 0

Next == Setup \/ Evaluate \/ WithinLimit \/ OverLimit \/ Accumulate \/ Finish

Spec == Init /\ [][Next]_vars

(* ---------------- properties ------------------------------------------- *)
Returned == pc \in {"test", "sum"}
Quadrant(p) == 2 * quadrant_bit1(p) + quadrant_bit0(p)
WAbsLeq1(d) == d \in {WInt(-1), WInt(0), WInt(1)}
(* u and v differ by at most one output unit *)
WithinOne(u, v) == WAbsLeq1(WSub(u, v))
Abs(n) == IF n < 0 THEN -n ELSE n
(* p reduced modulo FULL_CIRCLE *)
ModFull(p) == <<p[1] % Pow2(INPUT_BITS - LIMB_BITS), p[2]>>
HalfTurn(p) == ModFull(WAdd(p, WPow2(INPUT_BITS - 1)))
Mirror(p) == ModFull(WSub(WPow2(INPUT_BITS - 1), p))

(* C1: every value cordic_sine_cosine returns through s and c lies in      *)
(* [-OUTPUT_SCALE, OUTPUT_SCALE].                                          *)
InOutputRange(v) == WLeq(WNeg(OUTPUT_SCALE), v) /\ WLeq(v, OUTPUT_SCALE)
C1_Range == Returned => InOutputRange(s) /\ InOutputRange(c)
(* a call has returned the extreme value -OUTPUT_SCALE *)
C1_Witness == Returned /\ (s = WNeg(OUTPUT_SCALE) \/ c = WNeg(OUTPUT_SCALE))

(* C2: the call for the phase half a circle further starts its loop from   *)
(* the same x, y, z and returns, within one output unit, the negated sine  *)
(* and the negated cosine.                                                 *)
C2_HalfCircle ==
    Returned =>
        LET r == cordic_sine_cosine(HalfTurn(a), FALSE)
        IN  /\ r.run[1] = work[1]
            /\ WithinOne(r.s, WNeg(s))
            /\ WithinOne(r.c, WNeg(c))
(* a phase whose half-turn partner is one unit off the exact negation *)
C2_Witness ==
    /\ Returned
    /\ WLess(a, WPow2(INPUT_BITS - 1))
    /\ cordic_sine_cosine(HalfTurn(a), FALSE).s # WNeg(s)

(* the quadrant sign table *)
SignTable ==
    /\ Quadrant(a) \in {0, 3} => WLeq(WInt(0), c)
    /\ Quadrant(a) \in {1, 2} => WLeq(c, WInt(0))
    /\ Quadrant(a) \in {0, 1} => WLeq(WInt(0), s)
    /\ Quadrant(a) \in {2, 3} => WLeq(s, WInt(0))
(* C3 as stated: the signs follow the quadrant sign table at every phase.  *)
C3_Original == Returned => SignTable
(* C3 amended: the signs follow the quadrant sign table, except at phase 0 *)
(* (the first phase of quadrant 0), where the sine is -1, and at phase     *)
(* 3 * FULL_CIRCLE / 4 (the first phase of quadrant 3), where the cosine   *)
(* is -1.                                                                  *)
C3_Signs ==
    Returned =>
        IF a = MkPhase(0, 0, 0) THEN s = WInt(-1) /\ WLeq(WInt(0), c)
        ELSE IF a = MkPhase(3, 0, 0) THEN c = WInt(-1) /\ WLeq(s, WInt(0))
        ELSE SignTable
(* phase 0 has returned a sine of -1 *)
C3_Witness == Returned /\ a = WInt(0) /\ s = WInt(-1) /\ WLess(WInt(0), c)

(* C5: once setup has run, the note about a constant angles table has been *)
(* printed exactly once if all CORDIC_REPS entries of angles are equal,    *)
(* and not at all otherwise; before setup it has not been printed.         *)
AllAnglesEqual == \A i, j \in DOMAIN angles : angles[i] = angles[j]
C5_Signal ==
    /\ pc = "setup" => notes = 0
    /\ pc # "setup" => notes = (IF AllAnglesEqual THEN 1 ELSE 0)
(* setup has built a table of equal entries and printed the note once *)
C5_Witness ==
    /\ pc = "call"
    /\ count = 0
    /\ AllAnglesEqual
    /\ angles[0] = AngleEntry(0)
    /\ notes = 1

(* C7: no step after setup changes an entry of angles, shifts or initial;  *)
(* setup, the only step that writes them, runs before the first call.      *)
C7_TablesReadOnly == [][pc # "setup" => tables' = tables]_vars
(* traced and untraced calls have run and the tables are as generated *)
C7_Witness ==
    /\ pc = "done"
    /\ out_of_range > 0
    /\ angles = [i \in 0..(CORDIC_REPS - 1) |-> AngleEntry(i)]
    /\ shifts = [i \in 0..(CORDIC_REPS - 1) |-> ShiftEntry(i)]
    /\ initial = [i \in 0..(TABLE_SIZE - 1) |-> InitialEntry(i)]

(* C8: the traced call main makes for a phase stores the same s and c as   *)
(* the untraced call for that phase whose deviation is being reported, and *)
(* whatever calls came before, the s and c a call has stored are those a   *)
(* call for the same phase with the other show flag stores.                *)
C8_TraceIndependent ==
    /\ (pc = "sum" /\ show) => (s = first[1] /\ c = first[2])
    /\ Returned =>
          LET r == cordic_sine_cosine(a, ~show)
          IN  s = r.s /\ c = r.c
(* the traced call has printed its rows and returned *)
C8_Witness ==
    /\ pc = "sum"
    /\ show
    /\ Len(printed) = CORDIC_REPS + 1
    /\ first # <<WInt(0), WInt(0)>>

(* C9: z is at most 2^(CORDIC_BITS+Z_EXTRA_BITS-1) in magnitude when the   *)
(* loop is entered and below 2^(CORDIC_BITS+Z_EXTRA_BITS+1) in magnitude   *)
(* at the end of every iteration.                                          *)
C9_BoundedZ ==
    Returned =>
        /\ Len(work) = CORDIC_REPS + 1
        /\ Abs(work[1].z) <= Pow2(CORDIC_BITS + Z_EXTRA_BITS - 1)
        /\ \A j \in 2..Len(work) :
              Abs(work[j].z) < Pow2(CORDIC_BITS + Z_EXTRA_BITS + 1)
(* a call entered the loop with z at the limit and later held a z wider    *)
(* than the entry limit                                                    *)
C9_Witness ==
    /\ Returned
    /\ Abs(work[1].z) = Pow2(CORDIC_BITS + Z_EXTRA_BITS - 1)
    /\ \E j \in 2..Len(work) : Abs(work[j].z) > Pow2(CORDIC_BITS + Z_EXTRA_BITS)

(* C10: for a phase with a non-zero residual field, the call for the phase *)
(* mirrored about the quarter circle starts its loop from the same x, y, z *)
(* and returns the same sine and, within one output unit, the negated      *)
(* cosine.                                                                 *)
C10_Reflection ==
    (Returned /\ residual(a) # 0) =>
        LET r == cordic_sine_cosine(Mirror(a), FALSE)
        IN  /\ r.run[1] = work[1]
            /\ r.s = s
            /\ WithinOne(r.c, WNeg(c))
(* a phase of an even quadrant, mirrored into an odd one, has returned *)
C10_Witness ==
    /\ Returned
    /\ residual(a) # 0
    /\ quadrant_bit0(a) = 0
    /\ quadrant_bit0(Mirror(a)) = 1
    /\ index(Mirror(a)) = TABLE_SIZE - 1 - index(a)
    /\ cordic_sine_cosine(Mirror(a), FALSE).c # WNeg(c)

====
